---- MODULE Spec2Model ----
(***************************************************************************)
(* Soft-alias namespaced properties: the synchronization and scope         *)
(* resolution engine of the plugin (src/unnamed/part_001).                 *)
(*                                                                         *)
(* Strings are TLA+ strings; frontmatter maps are functions whose domain   *)
(* is the set of keys present (Object.prototype.hasOwnProperty).           *)
(***************************************************************************)
EXTENDS Integers, Sequences, FiniteSets, Bags, TLC

VARIABLES
    settings,       \* this.settings (SoftAliasSettings)
    fm,             \* path -> frontmatter map stored in the document
    cache,          \* path -> frontmatter snapshot of the metadata cache
    pendingTimers,  \* this.pendingTimers: path -> timer id
    timers,         \* window timers that are armed (debounce and create-delay)
    inFlight,       \* this.inFlight: set of paths
    ops,            \* bag of the async operations suspended at an await
    events,         \* lifecycle notifications emitted and not yet delivered
    unloaded,       \* onunload has run
    hist,           \* observations: the last mutator applications, the last resolution,
                    \* or the sync invocation the latest step made
    calls,          \* path -> scheduleNormalize calls of the current burst (0: no burst is open)
    lastReason,     \* path -> reason of the latest scheduleNormalize call of the current burst
    budget          \* external stimuli still allowed (bounds the exploration)

vars == <<settings, fm, cache, pendingTimers, timers, inFlight,
          ops, events, unloaded, hist, calls, lastReason, budget>>

(***************************************************************************)
(* Bounds                                                                  *)
(***************************************************************************)
MaxFmKeys == 2      \* keys present in an initial frontmatter map (mutator specification)
MaxManaged == 2     \* entries of the managed-key list (mutator specification)
MaxOps == 2         \* mutator applications per behaviour (mutator specification)
MaxRules == 2       \* rules of the rule list (resolver specification)
MaxStimuli == 2     \* external stimuli (events, commands, edits) per behaviour
MaxCalls == 2       \* scheduleNormalize calls counted per burst (the count saturates)
MaxBulk == 1        \* bulk commands per behaviour (bulk specification)

(***************************************************************************)
(* Values and strings                                                      *)
(***************************************************************************)
Null == "<null>"                      \* the JS value null
Values == {"high", "low", Null}       \* frontmatter values

None == "<none>"                      \* JS null / undefined returned by a lookup

\* String.prototype.startsWith
startsWith(s, p) == Len(p) <= Len(s) /\ SubSeq(s, 1, Len(p)) = p

\* String.prototype.endsWith
endsWith(s, p) == Len(p) <= Len(s) /\ SubSeq(s, Len(s) - Len(p) + 1, Len(s)) = p

\* String.prototype.trimStart (blanks only)
trimStart(s) ==
    LET ts[x \in STRING] ==
            IF Len(x) > 0 /\ SubSeq(x, 1, 1) = " " THEN ts[SubSeq(x, 2, Len(x))] ELSE x
    IN ts[s]

\* String.prototype.trimEnd (blanks only)
trimEnd(s) ==
    LET te[x \in STRING] ==
            IF Len(x) > 0 /\ SubSeq(x, Len(x), Len(x)) = " "
            THEN te[SubSeq(x, 1, Len(x) - 1)] ELSE x
    IN te[s]

\* String.prototype.trim
trim(s) == trimEnd(trimStart(s))

\* s.replace(/\\/g, "/")
replaceBackslashes(s) ==
    LET rb[x \in STRING] ==
            IF Len(x) = 0 THEN ""
            ELSE (IF SubSeq(x, 1, 1) = "\\" THEN "/" ELSE SubSeq(x, 1, 1))
                 \o rb[SubSeq(x, 2, Len(x))]
    IN rb[s]

\* s.split(","): the pieces between commas, at least one piece
splitComma(s, cur) ==
    LET sc[x \in STRING, c \in STRING] ==
            IF Len(x) = 0 THEN <<c>>
            ELSE IF SubSeq(x, 1, 1) = ","
                 THEN <<c>> \o sc[SubSeq(x, 2, Len(x)), ""]
                 ELSE sc[SubSeq(x, 2, Len(x)), c \o SubSeq(x, 1, 1)]
    IN sc[s, cur]

\* normalizePrefix(prefix)
normalizePrefix(prefix) ==
    LET p == trim(prefix)
        normalized == replaceBackslashes(p)
    IN IF p = "" THEN ""
       ELSE IF endsWith(normalized, "/") THEN normalized ELSE normalized \o "/"

\* parseManagedKeys(raw): split, trim, drop the empty pieces
parseManagedKeys(raw) ==
    LET pieces == splitComma(raw, "")
        trimmed == [i \in 1..Len(pieces) |-> trim(pieces[i])]
    IN SelectSeq(trimmed, LAMBDA x : x # "")

\* getManagedAliasKeys()
getManagedAliasKeys == parseManagedKeys(settings.managedAliasKeys)

\* a makeStorageKey without the fallback for a blank separator (not what the
\* code does)
makeStorageKeyNoFallback(slug, aliasKey) ==
    trim(settings.storagePrefix) \o slug \o trim(settings.storageSeparator) \o aliasKey

\* makeStorageKey(slug, aliasKey)
makeStorageKey(slug, aliasKey) ==
    LET prefix == trim(settings.storagePrefix)
        sep0 == trim(IF settings.storageSeparator = "" THEN "__" ELSE settings.storageSeparator)
        sep == IF sep0 = "" THEN "__" ELSE sep0
    IN prefix \o slug \o sep \o aliasKey

(***************************************************************************)
(* Frontmatter maps                                                        *)
(***************************************************************************)
\* Object.prototype.hasOwnProperty.call(fm, k)
Has(f, k) == k \in DOMAIN f

\* fm[k] = v
Put(f, k, v) == [x \in (DOMAIN f) \cup {k} |-> IF x = k THEN v ELSE f[x]]

\* delete fm[k]
Del(f, k) == [x \in (DOMAIN f) \ {k} |-> f[x]]

EmptyFm == [x \in {} |-> Null]

(***************************************************************************)
(* Documents and rules                                                     *)
(***************************************************************************)
Paths == {"n/x.md", "n/y.md"}         \* markdown documents of the vault
DocPath == "n/x.md"                   \* the document the mutator specification works on

\* a FolderRule
Rule(prefix, slug, enabled, yaml) ==
    [folderPrefix |-> prefix, namespaceSlug |-> slug,
     templateEnabled |-> enabled, templateYaml |-> yaml]

\* a scan that an incomplete rule ends (not what the code does)
RECURSIVE scanRulesStopAtInert(_, _)
scanRulesStopAtInert(path, i) ==
    IF i > Len(settings.folderRules) THEN 0
    ELSE LET rule == settings.folderRules[i]
             prefix == normalizePrefix(rule.folderPrefix)
             slug == trim(rule.namespaceSlug)
         IN IF prefix = "" \/ slug = "" THEN 0
            ELSE IF startsWith(path, prefix) THEN i
            ELSE scanRulesStopAtInert(path, i + 1)

\* index of the first rule of settings.folderRules, from i on, that applies to path; 0 if none
RECURSIVE scanRules(_, _)
scanRules(path, i) ==
    IF i > Len(settings.folderRules) THEN 0
    ELSE LET rule == settings.folderRules[i]
             prefix == normalizePrefix(rule.folderPrefix)
             slug == trim(rule.namespaceSlug)
         IN IF prefix = "" \/ slug = "" THEN scanRules(path, i + 1)
            ELSE IF startsWith(path, prefix) THEN i
            ELSE scanRules(path, i + 1)

\* a resolver that prefers the longest matching prefix (not what the code does)
getRuleIndexMostSpecific(filePath) ==
    LET path == replaceBackslashes(filePath)
        ok(i) == LET rule == settings.folderRules[i]
                 IN /\ normalizePrefix(rule.folderPrefix) # ""
                    /\ trim(rule.namespaceSlug) # ""
                    /\ startsWith(path, normalizePrefix(rule.folderPrefix))
        cands == {i \in 1..Len(settings.folderRules) : ok(i)}
        plen(i) == Len(normalizePrefix(settings.folderRules[i].folderPrefix))
    IN IF cands = {} THEN 0
       ELSE CHOOSE i \in cands : \A j \in cands : plen(j) < plen(i) \/ (plen(j) = plen(i) /\ i <= j)

\* the loop shared by getNamespaceSlugForFile and getRuleForFile
getRuleIndex(filePath) == scanRules(replaceBackslashes(filePath), 1)

\* the null that getRuleForFile returns
NoRule == Rule(None, None, FALSE, None)

\* getRuleForFile(file): the rule, or NoRule
getRuleForFile(filePath) ==
    LET i == getRuleIndex(filePath)
    IN IF i = 0 THEN NoRule ELSE settings.folderRules[i]

\* getNamespaceSlugForFile(file): the trimmed slug, or None
getNamespaceSlugForFile(filePath) ==
    LET i == getRuleIndex(filePath)
    IN IF i = 0 THEN None ELSE trim(settings.folderRules[i].namespaceSlug)

(***************************************************************************)
(* The mutators handed to processFrontMatter                               *)
(***************************************************************************)
\* a sync step that also creates the storage key, holding null, for an alias
\* key that is absent (not what the code does)
syncStepPlaceholder(f, slug, aliasKey) ==
    LET storageKey == makeStorageKey(slug, aliasKey)
        hasAlias == Has(f, aliasKey)
        hasStorage == Has(f, storageKey)
    IN IF hasStorage
       THEN IF settings.removePlainAliasKeysOnSync /\ hasAlias THEN Del(f, aliasKey) ELSE f
       ELSE IF hasAlias
            THEN LET g == Put(f, storageKey, f[aliasKey])
                 IN IF settings.removePlainAliasKeysOnSync THEN Del(g, aliasKey) ELSE g
            ELSE Put(f, storageKey, Null)

\* one iteration of the loop of normalizeFileNow's mutator
syncStep(f, slug, aliasKey) ==
    LET storageKey == makeStorageKey(slug, aliasKey)
        hasAlias == Has(f, aliasKey)
        hasStorage == Has(f, storageKey)
    IN IF hasStorage
       THEN IF settings.removePlainAliasKeysOnSync /\ hasAlias THEN Del(f, aliasKey) ELSE f
       ELSE IF hasAlias
            THEN LET g == Put(f, storageKey, f[aliasKey])
                 IN IF settings.removePlainAliasKeysOnSync THEN Del(g, aliasKey) ELSE g
            ELSE f

\* the mutator of normalizeFileNow: for (const aliasKey of managed)
RECURSIVE syncMutator(_, _, _)
syncMutator(f, slug, managed) ==
    IF managed = <<>> THEN f
    ELSE syncMutator(syncStep(f, slug, Head(managed)), slug, Tail(managed))

\* a pre-check without the cleanup case of the removal policy (not what the
\* code does)
needsIgnoringRemoval(f, slug, managed) ==
    \E i \in 1..Len(managed) :
        Has(f, managed[i]) /\ ~Has(f, makeStorageKey(slug, managed[i]))

\* a pre-check that asks for a sync of every document that holds a managed
\* alias key or its storage key (not what the code does)
needsWheneverManaged(f, slug, managed) ==
    \E i \in 1..Len(managed) :
        Has(f, managed[i]) \/ Has(f, makeStorageKey(slug, managed[i]))

\* computeNeedsNormalization(fm, slug, managed)
computeNeedsNormalization(f, slug, managed) ==
    \E i \in 1..Len(managed) :
        LET aliasKey == managed[i]
            storageKey == makeStorageKey(slug, aliasKey)
            hasAlias == Has(f, aliasKey)
            hasStorage == Has(f, storageKey)
        IN \/ ~hasStorage /\ hasAlias
           \/ hasStorage /\ hasAlias /\ settings.removePlainAliasKeysOnSync

\* a restore step that keeps an alias value that is already there (not what
\* the code does)
restoreStepKeepAlias(f, slug, aliasKey) ==
    LET storageKey == makeStorageKey(slug, aliasKey)
    IN IF ~Has(f, storageKey) THEN f
       ELSE LET g == IF Has(f, aliasKey) THEN f ELSE Put(f, aliasKey, f[storageKey])
            IN IF settings.deleteStorageKeysOnRestore THEN Del(g, storageKey) ELSE g

\* a restore step that never deletes the storage key (not what the code does)
restoreStepNoDelete(f, slug, aliasKey) ==
    LET storageKey == makeStorageKey(slug, aliasKey)
    IN IF ~Has(f, storageKey) THEN f ELSE Put(f, aliasKey, f[storageKey])

\* one iteration of the loop of restoreAliasesForFile's mutator
restoreStep(f, slug, aliasKey) ==
    LET storageKey == makeStorageKey(slug, aliasKey)
    IN IF ~Has(f, storageKey) THEN f
       ELSE LET g == Put(f, aliasKey, f[storageKey])
            IN IF settings.deleteStorageKeysOnRestore THEN Del(g, storageKey) ELSE g

\* a restore that takes every key carrying the namespace prefix for a storage
\* key, managed or not (not what the code does)
restoreMutatorByPrefix(f, slug, managed) ==
    LET pre == makeStorageKey(slug, "")
        stored == {x \in DOMAIN f : startsWith(x, pre) /\ Len(x) > Len(pre)}
        aliasOf(x) == SubSeq(x, Len(pre) + 1, Len(x))
        kept == IF settings.deleteStorageKeysOnRestore THEN (DOMAIN f) \ stored ELSE DOMAIN f
    IN [y \in kept \cup {aliasOf(x) : x \in stored} |->
           IF \E x \in stored : aliasOf(x) = y
           THEN f[CHOOSE x \in stored : aliasOf(x) = y]
           ELSE f[y]]

\* the mutator of restoreAliasesForFile
RECURSIVE restoreMutator(_, _, _)
restoreMutator(f, slug, managed) ==
    IF managed = <<>> THEN f
    ELSE restoreMutator(restoreStep(f, slug, Head(managed)), slug, Tail(managed))

\* the mutator of addManagedPropertyToFile
addManagedMutator(f, aliasKey) ==
    IF ~Has(f, aliasKey) THEN Put(f, aliasKey, Null) ELSE f

\* parseYaml of the template bodies used here: what the YAML parser returns
\* (kind "error": it throws); entries are Object.entries of the result
parseYaml(text) ==
    CASE text = "a: high"              -> [kind |-> "object", entries |-> << <<"a", "high">> >>]
      [] text = "{a: low, b: ~}"       -> [kind |-> "object", entries |-> << <<"a", "low">>, <<"b", Null>> >>]
      [] text = "{z: high, p__a: low}" -> [kind |-> "object", entries |-> << <<"z", "high">>, <<"p__a", "low">> >>]
      [] text = "{' a': low, a: high}" -> [kind |-> "object", entries |-> << <<" a", "low">>, <<"a", "high">> >>]
      [] text = "[a]"                  -> [kind |-> "list", entries |-> << <<"0", "a">> >>]
      [] text = "high"                 -> [kind |-> "scalar", entries |-> <<>>]
      [] text = "~"                    -> [kind |-> "null", entries |-> <<>>]
      [] OTHER                         -> [kind |-> "error", entries |-> <<>>]

TemplateTexts ==
    {"a: high", "{a: low, b: ~}", "{z: high, p__a: low}", "{' a': low, a: high}",
     "[a]", "high", "~", "a: ["}

\* !obj || typeof obj !== "object" is false: the template is applied
templateShapeOk(obj) == obj.kind \in {"object", "list"}

\* a template step that applies a declared key whether or not it is managed
\* (not what the code does)
templateStepUnrestricted(f, slug, managed, k, v) ==
    LET aliasKey == trim(k)
        storageKey == makeStorageKey(slug, aliasKey)
    IN IF aliasKey = "" THEN f
       ELSE IF Has(f, storageKey) THEN f
       ELSE LET g == Put(f, storageKey, v)
            IN IF ~settings.removePlainAliasKeysOnSync /\ ~Has(g, aliasKey)
               THEN Put(g, aliasKey, v) ELSE g

\* a template step that sets the storage key whether or not it is present
\* (not what the code does)
templateStepOverwrite(f, slug, managed, k, v) ==
    LET aliasKey == trim(k)
        managedSet == {managed[i] : i \in 1..Len(managed)}
        storageKey == makeStorageKey(slug, aliasKey)
    IN IF aliasKey = "" THEN f
       ELSE IF managedSet # {} /\ aliasKey \notin managedSet THEN f
       ELSE LET g == Put(f, storageKey, v)
            IN IF ~settings.removePlainAliasKeysOnSync /\ ~Has(g, aliasKey)
               THEN Put(g, aliasKey, v) ELSE g

\* one iteration of the loop of applyTemplateToNewFile's mutator
templateStep(f, slug, managed, k, v) ==
    LET aliasKey == trim(k)
        managedSet == {managed[i] : i \in 1..Len(managed)}
        storageKey == makeStorageKey(slug, aliasKey)
    IN IF aliasKey = "" THEN f
       ELSE IF managedSet # {} /\ aliasKey \notin managedSet THEN f
       ELSE IF Has(f, storageKey) THEN f
       ELSE LET g == Put(f, storageKey, v)
            IN IF ~settings.removePlainAliasKeysOnSync /\ ~Has(g, aliasKey)
               THEN Put(g, aliasKey, v) ELSE g

\* the mutator of applyTemplateToNewFile: for (const [k, v] of Object.entries(obj))
RECURSIVE templateMutator(_, _, _, _)
templateMutator(f, slug, managed, entries) ==
    IF entries = <<>> THEN f
    ELSE templateMutator(templateStep(f, slug, managed, Head(entries)[1], Head(entries)[2]),
                         slug, managed, Tail(entries))

(***************************************************************************)
(* Mutator specification: the four mutators applied to one document,       *)
(* with the settings and the frontmatter drawn from bounded sets.          *)
(***************************************************************************)
AliasNames == {"a", "b", "p__a"}      \* names a user may list as managed alias keys
FmKeys == {"a", "b", "p__a", "p__b", "p__p__a"}
InitValues == {"high", "low"}

RECURSIVE joinComma(_)
joinComma(ks) ==
    IF ks = <<>> THEN ""
    ELSE IF Len(ks) = 1 THEN ks[1]
    ELSE ks[1] \o ", " \o joinComma(Tail(ks))

\* the raw managedAliasKeys strings: every list of at most MaxManaged names
ManagedRaws ==
    {joinComma(ks) : ks \in UNION {[1..n -> AliasNames] : n \in 0..MaxManaged}}

\* the frontmatter maps with at most MaxFmKeys keys
InitFms ==
    UNION {[D -> InitValues] : D \in {S \in SUBSET FmKeys : Cardinality(S) <= MaxFmKeys}}

TheRules == << Rule("n/", "p", TRUE, "a: high") >>

BaseSettings(raw, removePlain, deleteOnRestore) ==
    [folderRules |-> TheRules,
     managedAliasKeys |-> raw,
     removePlainAliasKeysOnSync |-> removePlain,
     storagePrefix |-> "",
     storageSeparator |-> "__",
     deleteStorageKeysOnRestore |-> deleteOnRestore,
     enableAutoTemplateOnCreate |-> TRUE,
     applyTemplateOnlyIfNoFrontmatter |-> FALSE]

NoPaths == [p \in Paths |-> 0]

\* the scheduling state right after construction
IdleScheduling ==
    /\ pendingTimers = [p \in {} |-> 0]
    /\ timers = {}
    /\ inFlight = {}
    /\ ops = EmptyBag
    /\ events = {}
    /\ unloaded = FALSE
    /\ calls = NoPaths
    /\ lastReason = [p \in Paths |-> None]

InitMutators ==
    /\ settings \in {BaseSettings(raw, r, d) : raw \in ManagedRaws, r \in BOOLEAN, d \in BOOLEAN}
    /\ fm \in {[p \in Paths |-> IF p = DocPath THEN f ELSE EmptyFm] : f \in InitFms}
    /\ cache = fm
    /\ IdleScheduling
    /\ hist = <<>>
    /\ budget = MaxOps

\* the record of one mutator application; hist keeps the last two
Applied(op, before, after) == [op |-> op, before |-> before, after |-> after]

Remember(h, rec) == IF Len(h) < 2 THEN Append(h, rec) ELSE <<h[2], rec>>

ApplyMutator(op, after) ==
    /\ budget > 0
    /\ budget' = budget - 1
    /\ fm' = [fm EXCEPT ![DocPath] = after]
    /\ hist' = Remember(hist, Applied(op, fm[DocPath], after))
    /\ UNCHANGED <<settings, cache, pendingTimers, timers, inFlight,
                   ops, events, unloaded, calls, lastReason>>

\* processFrontMatter runs the mutator of normalizeFileNow
MSync ==
    LET slug == getNamespaceSlugForFile(DocPath)
        managed == getManagedAliasKeys
    IN /\ slug # None
       /\ Len(managed) > 0
       /\ ApplyMutator("sync", syncMutator(fm[DocPath], slug, managed))

\* processFrontMatter runs the mutator of restoreAliasesForFile
MRestore ==
    LET rule == getRuleForFile(DocPath)
        managed == getManagedAliasKeys
    IN /\ rule # NoRule
       /\ Len(managed) > 0
       /\ ApplyMutator("restore", restoreMutator(fm[DocPath], trim(rule.namespaceSlug), managed))

\* processFrontMatter runs the mutator of applyTemplateToNewFile
MTemplate ==
    \E text \in TemplateTexts :
        LET rule == getRuleForFile(DocPath)
            obj == parseYaml(text)
        IN /\ rule # NoRule
           /\ templateShapeOk(obj)
           /\ ApplyMutator("template",
                  templateMutator(fm[DocPath], trim(rule.namespaceSlug),
                                  getManagedAliasKeys, obj.entries))

\* processFrontMatter runs the mutator of addManagedPropertyToFile
MAddManaged ==
    \E i \in 1..Len(getManagedAliasKeys) :
        /\ getNamespaceSlugForFile(DocPath) # None
        /\ ApplyMutator("add", addManagedMutator(fm[DocPath], getManagedAliasKeys[i]))

NextMutators == MSync \/ MRestore \/ MTemplate \/ MAddManaged

SpecMutators == InitMutators /\ [][NextMutators]_vars

(***************************************************************************)
(* Properties of the mutators                                              *)
(***************************************************************************)
TheSlug == getNamespaceSlugForFile(DocPath)
ManagedSet == {getManagedAliasKeys[i] : i \in 1..Len(getManagedAliasKeys)}
StorageKeyOf(k) == makeStorageKey(TheSlug, k)
RemovalOn == settings.removePlainAliasKeysOnSync
DeleteOn == settings.deleteStorageKeysOnRestore

\* a managed alias key is itself the storage key of a managed alias key
KeyCollision == \E k \in ManagedSet : StorageKeyOf(k) \in ManagedSet

\* the last two applications were a sync and then a restore
SyncThenRestore ==
    /\ Len(hist) = 2
    /\ hist[1].op = "sync"
    /\ hist[2].op = "restore"

\* C1: a storage key of a managed alias key that is present before a sync is
\* present with the same value after it.
C1_SourceOfTruth ==
    \A i \in 1..Len(hist) :
        hist[i].op = "sync" =>
            \A k \in ManagedSet :
                Has(hist[i].before, StorageKeyOf(k)) =>
                    /\ Has(hist[i].after, StorageKeyOf(k))
                    /\ hist[i].after[StorageKeyOf(k)] = hist[i].before[StorageKeyOf(k)]

\* C2: a sync applied right after a sync leaves the frontmatter as the first
\* sync left it.
C2_SyncIdempotent ==
    (Len(hist) = 2 /\ hist[1].op = "sync" /\ hist[2].op = "sync")
        => hist[2].after = hist[1].after

\* C5 as stated: after sync (removal ON) then restore (delete ON), every
\* managed alias key present before the sync holds its pre-sync value and its
\* storage key is absent.
C5_RoundTripOriginal ==
    (SyncThenRestore /\ RemovalOn /\ DeleteOn) =>
        \A k \in ManagedSet :
            Has(hist[1].before, k) =>
                /\ Has(hist[2].after, k)
                /\ hist[2].after[k] = hist[1].before[k]
                /\ ~Has(hist[2].after, StorageKeyOf(k))

\* C5 amended: the round trip holds for the managed alias keys whose storage
\* key was absent before the sync, when no managed alias key is itself the
\* storage key of a managed alias key.
C5_RoundTrip ==
    (SyncThenRestore /\ RemovalOn /\ DeleteOn /\ ~KeyCollision) =>
        \A k \in ManagedSet :
            (Has(hist[1].before, k) /\ ~Has(hist[1].before, StorageKeyOf(k))) =>
                /\ Has(hist[2].after, k)
                /\ hist[2].after[k] = hist[1].before[k]
                /\ ~Has(hist[2].after, StorageKeyOf(k))

\* witness of C5: a sync moved an alias value into its storage key and the
\* restore brought it back
C5_Witness ==
    /\ SyncThenRestore /\ RemovalOn /\ DeleteOn /\ ~KeyCollision
    /\ \E k \in ManagedSet :
          /\ Has(hist[1].before, k) /\ ~Has(hist[1].before, StorageKeyOf(k))
          /\ ~Has(hist[1].after, k) /\ Has(hist[1].after, StorageKeyOf(k))
          /\ Has(hist[2].after, k)

\* C7: a sync moves an alias key without storage key: the storage key gets
\* the alias value, the alias key goes with removal ON and stays with removal OFF.
C7_MoveCase ==
    \A i \in 1..Len(hist) :
        hist[i].op = "sync" =>
            \A k \in ManagedSet :
                (Has(hist[i].before, k) /\ ~Has(hist[i].before, StorageKeyOf(k))) =>
                    /\ Has(hist[i].after, StorageKeyOf(k))
                    /\ hist[i].after[StorageKeyOf(k)] = hist[i].before[k]
                    /\ RemovalOn => ~Has(hist[i].after, k)
                    /\ ~RemovalOn => (Has(hist[i].after, k) /\ hist[i].after[k] = hist[i].before[k])

\* C8: when alias key and storage key are both present before a sync, removal
\* ON deletes the alias key and the storage key keeps its value; removal OFF
\* leaves both as they were.
C8_ConflictCase ==
    \A i \in 1..Len(hist) :
        hist[i].op = "sync" =>
            \A k \in ManagedSet :
                (Has(hist[i].before, k) /\ Has(hist[i].before, StorageKeyOf(k))) =>
                    /\ Has(hist[i].after, StorageKeyOf(k))
                    /\ hist[i].after[StorageKeyOf(k)] = hist[i].before[StorageKeyOf(k)]
                    /\ RemovalOn => ~Has(hist[i].after, k)
                    /\ ~RemovalOn => (Has(hist[i].after, k) /\ hist[i].after[k] = hist[i].before[k])

\* C10: a sync, a template application, an add-managed-property and a restore
\* with delete-storage-keys OFF keep every storage key of a managed alias key.
C10_OnlyRestoreDeletes ==
    \A i \in 1..Len(hist) :
        (hist[i].op \in {"sync", "template", "add"} \/ (hist[i].op = "restore" /\ ~DeleteOn)) =>
            \A k \in ManagedSet :
                Has(hist[i].before, StorageKeyOf(k)) => Has(hist[i].after, StorageKeyOf(k))

\* the keys the i-th recorded application created
CreatedBy(i) == (DOMAIN hist[i].after) \ (DOMAIN hist[i].before)

\* C11 as stated: a storage key that a sync created holds a non-null value.
C11_NoNullOriginal ==
    \A i \in 1..Len(hist) :
        hist[i].op = "sync" =>
            \A k \in ManagedSet :
                StorageKeyOf(k) \in CreatedBy(i) => hist[i].after[StorageKeyOf(k)] # Null

\* C11 amended: a sync creates keys only by copying: every key it created is
\* the storage key of a managed alias key and holds the value a managed alias
\* key present before the sync held, null included.
C11_CopiesOnly ==
    \A i \in 1..Len(hist) :
        hist[i].op = "sync" =>
            \A x \in CreatedBy(i) :
                /\ \E k \in ManagedSet : x = StorageKeyOf(k)
                /\ \E k \in ManagedSet :
                      Has(hist[i].before, k) /\ hist[i].after[x] = hist[i].before[k]

\* witness of C11: add-managed-property put a null alias key and the sync
\* that followed created its storage key, holding null
C11_Witness ==
    /\ Len(hist) = 2
    /\ hist[1].op = "add" /\ hist[2].op = "sync"
    /\ \E k \in ManagedSet :
          /\ k \in CreatedBy(1)
          /\ StorageKeyOf(k) \in CreatedBy(2)
          /\ hist[2].after[StorageKeyOf(k)] = Null

\* the keys the configuration manages: the managed alias keys and their
\* storage keys under the resolved slug
ManagedOrStorage == ManagedSet \cup {StorageKeyOf(k) : k \in ManagedSet}

\* the keys of the i-th recorded application that are not managed
Unmanaged(i) == ((DOMAIN hist[i].before) \cup (DOMAIN hist[i].after)) \ ManagedOrStorage

\* C12: a key that is neither a managed alias key nor the storage key of one
\* has the same presence and value after a sync or a restore as before it.
C12_Frame ==
    \A i \in 1..Len(hist) :
        hist[i].op \in {"sync", "restore"} =>
            \A x \in Unmanaged(i) :
                /\ Has(hist[i].before, x)
                /\ Has(hist[i].after, x)
                /\ hist[i].after[x] = hist[i].before[x]

\* witness of C12: a sync and then a restore both changed a frontmatter that
\* holds a key carrying the namespace prefix that is not managed
C12_Witness ==
    /\ SyncThenRestore
    /\ hist[1].after # hist[1].before
    /\ hist[2].after # hist[2].before
    /\ \E x \in Unmanaged(2) : startsWith(x, StorageKeyOf("")) /\ Has(hist[1].before, x)

\* the frontmatter before each iteration of the restore loop and after the last
RECURSIVE restoreTrace(_, _, _)
restoreTrace(f, slug, managed) ==
    IF managed = <<>> THEN <<f>>
    ELSE <<f>> \o restoreTrace(restoreStep(f, slug, Head(managed)), slug, Tail(managed))

\* g and h agree on every key other than those of ks
SameExcept(g, h, ks) ==
    /\ (DOMAIN g) \ ks = (DOMAIN h) \ ks
    /\ \A x \in (DOMAIN g) \ ks : h[x] = g[x]

\* C14: the restore handles the managed keys in order; for a key whose
\* storage key is present the alias key gets the storage key's value, whatever
\* it held, and the storage key is deleted exactly when delete-storage-keys is
\* ON; for a key whose storage key is absent nothing changes.
C14_RestoreTransform ==
    \A i \in 1..Len(hist) :
        hist[i].op = "restore" =>
            LET managed == getManagedAliasKeys
                tr == restoreTrace(hist[i].before, TheSlug, managed)
            IN /\ tr[Len(tr)] = hist[i].after
               /\ \A j \in 1..Len(managed) :
                     LET k == managed[j]
                         sk == StorageKeyOf(k)
                         g == tr[j]
                         h == tr[j + 1]
                     IN IF Has(g, sk)
                        THEN /\ Has(h, k) /\ h[k] = g[sk]
                             /\ DeleteOn => ~Has(h, sk)
                             /\ ~DeleteOn => (Has(h, sk) /\ h[sk] = g[sk])
                             /\ SameExcept(g, h, {k, sk})
                        ELSE h = g

\* witness of C14: a restore overwrote an alias value with the value of the
\* storage key and deleted the storage key
C14_Witness ==
    \E i \in 1..Len(hist) :
        /\ hist[i].op = "restore"
        /\ DeleteOn
        /\ \E k \in ManagedSet :
              /\ Has(hist[i].before, k) /\ Has(hist[i].before, StorageKeyOf(k))
              /\ hist[i].before[k] # hist[i].before[StorageKeyOf(k)]
              /\ Has(hist[i].after, k)
              /\ hist[i].after[k] = hist[i].before[StorageKeyOf(k)]
              /\ ~Has(hist[i].after, StorageKeyOf(k))

\* C18: the pre-check answers true for a frontmatter exactly when the sync
\* mutator applied to that frontmatter changes it.
C18_NeedsSyncAgrees ==
    \A i \in 1..Len(hist) :
        hist[i].op = "sync" =>
            (computeNeedsNormalization(hist[i].before, TheSlug, getManagedAliasKeys)
                <=> hist[i].after # hist[i].before)

\* witness of C18: with removal ON a sync changed a frontmatter that held an
\* alias key next to its storage key, and a second sync found nothing to do
C18_Witness ==
    /\ Len(hist) = 2
    /\ hist[1].op = "sync" /\ hist[2].op = "sync"
    /\ RemovalOn
    /\ \E k \in ManagedSet : Has(hist[1].before, k) /\ Has(hist[1].before, StorageKeyOf(k))
    /\ computeNeedsNormalization(hist[1].before, TheSlug, getManagedAliasKeys)
    /\ hist[1].after # hist[1].before
    /\ ~computeNeedsNormalization(hist[2].before, TheSlug, getManagedAliasKeys)
    /\ hist[2].after = hist[2].before

(***************************************************************************)
(* Template specification: the mutator of applyTemplateToNewFile applied   *)
(* to one document, the template body of the rule drawn from TemplateTexts *)
(***************************************************************************)
\* processFrontMatter runs the mutator of applyTemplateToNewFile; the
\* application is recorded with the template body
TemplateApplied ==
    \E text \in TemplateTexts :
        LET rule == getRuleForFile(DocPath)
            obj == parseYaml(text)
            after == templateMutator(fm[DocPath], trim(rule.namespaceSlug),
                                     getManagedAliasKeys, obj.entries)
        IN /\ rule # NoRule
           /\ templateShapeOk(obj)
           /\ budget > 0
           /\ budget' = budget - 1
           /\ fm' = [fm EXCEPT ![DocPath] = after]
           /\ hist' = << [op |-> "template", text |-> text,
                          before |-> fm[DocPath], after |-> after] >>
           /\ UNCHANGED <<settings, cache, pendingTimers, timers, inFlight,
                          ops, events, unloaded, calls, lastReason>>

NextTemplate == TemplateApplied

SpecTemplate == InitMutators /\ [][NextTemplate]_vars

\* the frontmatter before each iteration of the template loop and after the last
RECURSIVE templateTrace(_, _, _, _)
templateTrace(f, slug, managed, entries) ==
    IF entries = <<>> THEN <<f>>
    ELSE <<f>> \o templateTrace(templateStep(f, slug, managed, Head(entries)[1], Head(entries)[2]),
                                slug, managed, Tail(entries))

\* the declared key k is applied: it is not blank and, when the managed list
\* is not empty, it is on the list
IsApplied(k) == trim(k) # "" /\ (ManagedSet = {} \/ trim(k) \in ManagedSet)

\* the latest step applied a template
TemplateRecorded == hist # <<>> /\ hist[1].op = "template"

\* C15: a template application never overwrites: every key present before it
\* keeps its value; for each declared key that is applied, in declaration
\* order, a storage key that is present keeps its value and one that is absent
\* gets the declared default, null included; with removal ON an empty document
\* ends up with exactly the storage keys of the applied declared keys, each
\* holding the default of its first declaration.
C15_TemplateNeverOverwrites ==
    TemplateRecorded =>
        LET before == hist[1].before
            after == hist[1].after
            entries == parseYaml(hist[1].text).entries
            tr == templateTrace(before, TheSlug, getManagedAliasKeys, entries)
            applied == {j \in 1..Len(entries) : IsApplied(entries[j][1])}
            sk(j) == StorageKeyOf(trim(entries[j][1]))
        IN /\ tr[Len(tr)] = after
           /\ \A x \in DOMAIN before : Has(after, x) /\ after[x] = before[x]
           /\ \A j \in applied :
                 /\ Has(tr[j + 1], sk(j))
                 /\ tr[j + 1][sk(j)] = IF Has(tr[j], sk(j)) THEN tr[j][sk(j)] ELSE entries[j][2]
           /\ (RemovalOn /\ before = EmptyFm) =>
                 /\ DOMAIN after = {sk(j) : j \in applied}
                 /\ \A j \in applied :
                       (\A h \in applied : sk(h) = sk(j) => j <= h)
                           => after[sk(j)] = entries[j][2]

\* witness of C15: a template with a null default met a storage key that was
\* present with another value, kept it, and set the absent one to null
C15_Witness ==
    /\ TemplateRecorded
    /\ hist[1].text = "{a: low, b: ~}"
    /\ RemovalOn
    /\ ManagedSet = {"a", "b"}
    /\ hist[1].before = [p__a |-> "high"]
    /\ hist[1].after = [p__a |-> "high", p__b |-> Null]

(***************************************************************************)
(* Key-format specification: makeStorageKey and the components that call   *)
(* it, with the storage prefix and separator drawn from bounded sets.      *)
(***************************************************************************)
RawStoragePrefixes == {"", "ba__", " x "}
RawSeparators == {"__", "_", "", " ", " - "}
KeySlugs == {"p", "q"}
KeyAliases == {"a", "b"}
KeyManagedRaws == {"a", "a, b"}
KeyFms == {EmptyFm, [a |-> "high"], [a |-> "high", b |-> "low"]}

InitKeys ==
    /\ settings \in {[BaseSettings(raw, r, TRUE) EXCEPT !.storagePrefix = pre,
                                                        !.storageSeparator = sep]
                        : raw \in KeyManagedRaws, r \in BOOLEAN,
                          pre \in RawStoragePrefixes, sep \in RawSeparators}
    /\ fm \in {[p \in Paths |-> IF p = DocPath THEN f ELSE EmptyFm] : f \in KeyFms}
    /\ cache = fm
    /\ IdleScheduling
    /\ hist = <<>>
    /\ budget = MaxOps

\* a caller (the inspector, the settings preview) formats a storage key
FormatKey ==
    \E slug \in KeySlugs, aliasKey \in KeyAliases :
        /\ hist' = Remember(hist, [op |-> "format", slug |-> slug, aliasKey |-> aliasKey,
                                   key |-> makeStorageKey(slug, aliasKey)])
        /\ UNCHANGED <<settings, fm, cache, pendingTimers, timers, inFlight,
                       ops, events, unloaded, calls, lastReason, budget>>

\* normalizeFileNow runs the pre-check on the frontmatter of the document
NeedsSyncCheck ==
    LET slug == getNamespaceSlugForFile(DocPath)
        managed == getManagedAliasKeys
    IN /\ slug # None
       /\ Len(managed) > 0
       /\ hist' = Remember(hist, [op |-> "needsSync", before |-> fm[DocPath],
                                  result |-> computeNeedsNormalization(fm[DocPath], slug, managed)])
       /\ UNCHANGED <<settings, fm, cache, pendingTimers, timers, inFlight,
                      ops, events, unloaded, calls, lastReason, budget>>

NextKeys == FormatKey \/ NeedsSyncCheck \/ MSync \/ MRestore \/ MTemplate

SpecKeys == InitKeys /\ [][NextKeys]_vars

\* the separator in effect: the configured one without surrounding blanks,
\* "__" when nothing is left
EffectiveSeparator ==
    IF trim(settings.storageSeparator) = "" THEN "__" ELSE trim(settings.storageSeparator)

\* the key the format prescribes, with the prefix as configured
ConfiguredKey(slug, aliasKey) ==
    settings.storagePrefix \o slug \o EffectiveSeparator \o aliasKey

\* the key the format prescribes, with prefix and separator trimmed
TrimmedKey(slug, aliasKey) ==
    trim(settings.storagePrefix) \o slug \o EffectiveSeparator \o aliasKey

\* C13 as stated: makeStorageKey returns configured prefix + slug + separator
\* + aliasKey, "__" standing in for a blank separator.
C13_KeyFormatOriginal ==
    \A i \in 1..Len(hist) :
        hist[i].op = "format" => hist[i].key = ConfiguredKey(hist[i].slug, hist[i].aliasKey)

\* C13 amended: makeStorageKey returns prefix + slug + separator + aliasKey
\* with prefix and separator the configured ones trimmed, and "__" for the
\* separator when nothing is left of it; sync, pre-check, restore and template
\* all work on that key.
C13_KeyFormat ==
    \A i \in 1..Len(hist) :
        /\ hist[i].op = "format" =>
              /\ hist[i].key = TrimmedKey(hist[i].slug, hist[i].aliasKey)
              /\ Len(EffectiveSeparator) > 0
        /\ hist[i].op = "needsSync" =>
              (hist[i].result <=>
                  \E k \in ManagedSet :
                      /\ Has(hist[i].before, k)
                      /\ ~Has(hist[i].before, TrimmedKey(TheSlug, k)) \/ RemovalOn)
        /\ hist[i].op = "sync" =>
              /\ CreatedBy(i) \subseteq {TrimmedKey(TheSlug, k) : k \in ManagedSet}
              /\ \A k \in ManagedSet :
                    Has(hist[i].before, k) => Has(hist[i].after, TrimmedKey(TheSlug, k))
        /\ hist[i].op = "restore" =>
              \A k \in ManagedSet :
                  IF Has(hist[i].before, TrimmedKey(TheSlug, k))
                  THEN Has(hist[i].after, k)
                       /\ hist[i].after[k] = hist[i].before[TrimmedKey(TheSlug, k)]
                       /\ ~Has(hist[i].after, TrimmedKey(TheSlug, k))
                  ELSE Has(hist[i].after, k) <=> Has(hist[i].before, k)
        /\ hist[i].op = "template" =>
              /\ CreatedBy(i) \subseteq
                    ManagedSet \cup {TrimmedKey(TheSlug, k) : k \in ManagedSet}
              /\ \A k \in ManagedSet :
                    k \in CreatedBy(i) => TrimmedKey(TheSlug, k) \in CreatedBy(i)

\* witness of C13: with a prefix and a separator that carry blanks, a key was
\* formatted, and a sync created a storage key that the restore then read
C13_Witness ==
    /\ settings.storagePrefix = " x "
    /\ settings.storageSeparator = " - "
    /\ SyncThenRestore
    /\ Has(hist[1].after, "xp-a")
    /\ hist[2].after = [a |-> "high"]

(***************************************************************************)
(* Resolver specification: getNamespaceSlugForFile and getRuleForFile on   *)
(* rule lists and paths drawn from bounded sets.                           *)
(***************************************************************************)
RawPrefixes == {"", " ", "a", "a/", " a/b", "a\\b/"}
RawSlugs == {"", " ", "s", " t "}
QueryPaths == {"a/f.md", "a/b/f.md", "a\\b\\f.md", "ab/f.md", "c/f.md"}

RuleLists ==
    UNION {[1..n -> {Rule(pre, slug, FALSE, "") : pre \in RawPrefixes, slug \in RawSlugs}]
           : n \in 0..MaxRules}

InitRules ==
    /\ settings \in {[BaseSettings("a", TRUE, FALSE) EXCEPT !.folderRules = rl] : rl \in RuleLists}
    /\ fm = [p \in Paths |-> EmptyFm]
    /\ cache = fm
    /\ IdleScheduling
    /\ hist = <<>>
    /\ budget = 0

\* a caller resolves the scope of a file
ResolveFile ==
    \E path \in QueryPaths :
        /\ hist' = << [op |-> "resolve", path |-> path,
                       slug |-> getNamespaceSlugForFile(path),
                       rule |-> getRuleForFile(path)] >>
        /\ UNCHANGED <<settings, fm, cache, pendingTimers, timers, inFlight,
                       ops, events, unloaded, calls, lastReason, budget>>

NextRules == ResolveFile

SpecRules == InitRules /\ [][NextRules]_vars

\* the normalized prefix of rule i is a literal prefix of the normalized path
\* and its trimmed slug is not empty
PrefixMatches(i, path) ==
    /\ startsWith(replaceBackslashes(path), normalizePrefix(settings.folderRules[i].folderPrefix))
    /\ trim(settings.folderRules[i].namespaceSlug) # ""

\* ... and the normalized prefix is not empty
CompleteMatches(i, path) ==
    /\ PrefixMatches(i, path)
    /\ normalizePrefix(settings.folderRules[i].folderPrefix) # ""

\* the resolution recorded in hist is rule i
ResolvedTo(i) ==
    /\ hist[1].rule = settings.folderRules[i]
    /\ hist[1].slug = trim(settings.folderRules[i].namespaceSlug)

ResolvedToNone == hist[1].rule = NoRule /\ hist[1].slug = None

Resolved == Len(hist) = 1 /\ hist[1].op = "resolve"

\* C6 as stated: the resolver returns the earliest rule whose normalized
\* prefix is a literal prefix of the path and whose trimmed slug is non-empty.
C6_FirstMatchOriginal ==
    Resolved =>
        LET m == {i \in 1..Len(settings.folderRules) : PrefixMatches(i, hist[1].path)}
        IN IF m = {} THEN ResolvedToNone
           ELSE ResolvedTo(CHOOSE i \in m : \A j \in m : i <= j)

\* C6 amended: the resolver returns the earliest rule whose normalized prefix
\* is non-empty and a literal prefix of the path and whose trimmed slug is
\* non-empty, and none when there is no such rule.
C6_FirstMatch ==
    Resolved =>
        LET m == {i \in 1..Len(settings.folderRules) : CompleteMatches(i, hist[1].path)}
        IN IF m = {} THEN ResolvedToNone
           ELSE ResolvedTo(CHOOSE i \in m : \A j \in m : i <= j)

\* witness of C6: rules "a/" and "a/b/" both match, "a/" is listed first and wins
C6_Witness ==
    /\ Resolved
    /\ Len(settings.folderRules) = 2
    /\ normalizePrefix(settings.folderRules[1].folderPrefix) = "a/"
    /\ normalizePrefix(settings.folderRules[2].folderPrefix) = "a/b/"
    /\ CompleteMatches(1, hist[1].path) /\ CompleteMatches(2, hist[1].path)
    /\ hist[1].slug = trim(settings.folderRules[1].namespaceSlug)
    /\ hist[1].slug # trim(settings.folderRules[2].namespaceSlug)

(***************************************************************************)
(* The plugin as a state machine: lifecycle events, debounce timers, the   *)
(* four operations that take the in-flight marker, and shutdown.           *)
(***************************************************************************)
SyncReasons == {"open", "modify", "metadata-changed", "manual"}

\* a timer armed by window.setTimeout: the debounce timer of scheduleNormalize
\* ("normalize") or the 200 ms delay of the vault 'create' handler ("create")
Timer(id, kind, path, reason) == [id |-> id, kind |-> kind, path |-> path, reason |-> reason]

\* the id window.setTimeout returns: positive, and not the id of an armed timer
FreshId == CHOOSE i \in 1..(Cardinality(timers) + 1) : i \notin {t.id : t \in timers}

\* an operation suspended at an await: at vault.read ("read"), at
\* processFrontMatter ("rmw"), or with the promise settled and the continuation
\* not yet run ("resolved", "rejected")
Op(kind, path, phase, arg) == [kind |-> kind, path |-> path, phase |-> phase, arg |-> arg]

\* the processFrontMatter calls on path that have not settled
Executing(path) == {o \in BagToSet(ops) : o.path = path /\ o.phase = "rmw"}

RmwCount(path) == BagCardinality([o \in Executing(path) |-> ops[o]])

\* scheduleNormalize without clearTimeout(existing) (not what the code does)
clearExistingNot(path) == timers

\* const existing = this.pendingTimers.get(key); if (existing) window.clearTimeout(existing);
clearExisting(path) ==
    IF path \in DOMAIN pendingTimers
    THEN {t \in timers : t.id # pendingTimers[path]}
    ELSE timers

\* scheduleNormalize(file, reason)
scheduleNormalize(path, reason) ==
    IF getNamespaceSlugForFile(path) = None
    THEN UNCHANGED <<pendingTimers, timers, calls, lastReason>>
    ELSE /\ timers' = clearExisting(path) \cup {Timer(FreshId, "normalize", path, reason)}
         /\ pendingTimers' = Put(pendingTimers, path, FreshId)
         /\ lastReason' = [lastReason EXCEPT ![path] = reason]
         /\ calls' = [calls EXCEPT ![path] = IF path \notin DOMAIN pendingTimers THEN 1
                                         ELSE IF @ < MaxCalls THEN @ + 1 ELSE @]

\* a normalizeFileNow that ignores the triggers its own writes cause (not
\* what the code does)
normalizeFileNowDeaf(path, reason) ==
    LET slug == getNamespaceSlugForFile(path)
        managed == getManagedAliasKeys
    IN IF \/ reason \in {"modify", "metadata-changed"}
          \/ slug = None
          \/ path \in inFlight
          \/ Len(managed) = 0
          \/ ~computeNeedsNormalization(cache[path], slug, managed)
       THEN UNCHANGED <<inFlight, ops>>
       ELSE /\ inFlight' = inFlight \cup {path}
            /\ ops' = ops (+) SetToBag({Op("sync", path, "rmw", None)})

\* a normalizeFileNow behind one lock for all documents (not what the code does)
normalizeFileNowGlobalLock(path, reason) ==
    LET slug == getNamespaceSlugForFile(path)
        managed == getManagedAliasKeys
    IN IF \/ slug = None
          \/ inFlight # {}
          \/ Len(managed) = 0
          \/ ~computeNeedsNormalization(cache[path], slug, managed)
       THEN UNCHANGED <<inFlight, ops>>
       ELSE /\ inFlight' = inFlight \cup {path}
            /\ ops' = ops (+) SetToBag({Op("sync", path, "rmw", None)})

\* normalizeFileNow(file, reason) up to its first await
normalizeFileNow(path, reason) ==
    LET slug == getNamespaceSlugForFile(path)
        managed == getManagedAliasKeys
    IN IF \/ slug = None
          \/ path \in inFlight
          \/ Len(managed) = 0
          \/ ~computeNeedsNormalization(cache[path], slug, managed)
       THEN UNCHANGED <<inFlight, ops>>
       ELSE /\ inFlight' = inFlight \cup {path}
            /\ ops' = ops (+) SetToBag({Op("sync", path, "rmw", None)})

\* a restoreAliasesForFile that goes on with an empty managed-key list (not
\* what the code does)
restoreAliasesForFileAnyList(path) ==
    IF \/ getRuleForFile(path) = NoRule
       \/ path \in inFlight
    THEN UNCHANGED <<inFlight, ops>>
    ELSE /\ inFlight' = inFlight \cup {path}
         /\ ops' = ops (+) SetToBag({Op("restore", path, "rmw", None)})

\* restoreAliasesForFile(file) up to its first await
restoreAliasesForFile(path) ==
    IF \/ getRuleForFile(path) = NoRule
       \/ Len(getManagedAliasKeys) = 0
       \/ path \in inFlight
    THEN UNCHANGED <<inFlight, ops>>
    ELSE /\ inFlight' = inFlight \cup {path}
         /\ ops' = ops (+) SetToBag({Op("restore", path, "rmw", None)})

\* addManagedPropertyToFile(file, aliasKey) up to its first await
addManagedPropertyToFile(path, aliasKey) ==
    IF \/ getNamespaceSlugForFile(path) = None
       \/ path \in inFlight
    THEN UNCHANGED <<inFlight, ops>>
    ELSE /\ inFlight' = inFlight \cup {path}
         /\ ops' = ops (+) SetToBag({Op("add", path, "rmw", aliasKey)})

\* applyTemplateToNewFile from parseYaml on, up to processFrontMatter; rest
\* is the bag of the other suspended operations
applyTemplateParsed(path, rest) ==
    LET rule == getRuleForFile(path)
        obj == parseYaml(trim(rule.templateYaml))
    IN IF \/ ~templateShapeOk(obj)
          \/ path \in inFlight
       THEN /\ ops' = rest
            /\ UNCHANGED inFlight
       ELSE /\ inFlight' = inFlight \cup {path}
            /\ ops' = rest (+) SetToBag({Op("template", path, "rmw", None)})

\* applyTemplateToNewFile(file) up to its first await
applyTemplateToNewFile(path) ==
    LET rule == getRuleForFile(path)
    IN IF rule = NoRule
       THEN UNCHANGED <<inFlight, ops>>
       ELSE IF ~rule.templateEnabled \/ trim(rule.templateYaml) = ""
       THEN UNCHANGED <<inFlight, ops>>
       ELSE IF settings.applyTemplateOnlyIfNoFrontmatter
       THEN /\ ops' = ops (+) SetToBag({Op("template", path, "read", None)})
            /\ UNCHANGED inFlight
       ELSE applyTemplateParsed(path, ops)

\* a write of the document: the vault emits 'modify', whose handler runs at
\* once, and the metadata cache will emit 'changed'
Written(path) ==
    /\ events' = events \cup {<<"changed", path>>}
    /\ IF unloaded
       THEN UNCHANGED <<pendingTimers, timers, calls, lastReason>>
       ELSE scheduleNormalize(path, "modify")

Stimulus ==
    /\ budget > 0
    /\ budget' = budget - 1

Init ==
    /\ settings \in {[BaseSettings("a", TRUE, TRUE) EXCEPT !.applyTemplateOnlyIfNoFrontmatter = g]
                        : g \in BOOLEAN}
    /\ fm = [p \in Paths |-> IF p = DocPath THEN [a |-> "high"] ELSE EmptyFm]
    /\ cache = fm
    /\ IdleScheduling
    /\ hist = <<>>
    /\ budget = MaxStimuli

\* getActiveMarkdownFile(): the note in the active leaf, the same one throughout
ActiveFiles == {DocPath}

EditValues == {"low"}                 \* what the user types into the alias property

\* the step invoked no sync from a debounce timer and settled no operation
NoInvocation == hist' = <<>>

\* workspace 'active-leaf-change' handler (and the startup normalize of onload)
ActiveLeafChangeOn(path) ==
    /\ ~unloaded
    /\ Stimulus
    /\ scheduleNormalize(path, "open")
    /\ NoInvocation
    /\ UNCHANGED <<settings, fm, cache, inFlight, ops, events, unloaded>>

ActiveLeafChange == \E path \in ActiveFiles : ActiveLeafChangeOn(path)

\* the user edits a property of the document in the editor; vault 'modify' handler
UserEditOn(path, v) ==
    /\ Stimulus
    /\ fm' = [fm EXCEPT ![path] = Put(@, "a", v)]
    /\ Written(path)
    /\ NoInvocation
    /\ UNCHANGED <<settings, cache, inFlight, ops, unloaded>>

UserEdit == \E path \in Paths, v \in EditValues : UserEditOn(path, v)

\* the metadata cache has re-read the document and emits 'changed':
\* metadataCache 'changed' handler
MetadataChangedOn(path) ==
    /\ <<"changed", path>> \in events
    /\ events' = events \ {<<"changed", path>>}
    /\ cache' = [cache EXCEPT ![path] = fm[path]]
    /\ IF unloaded
       THEN UNCHANGED <<pendingTimers, timers, calls, lastReason>>
       ELSE scheduleNormalize(path, "metadata-changed")
    /\ NoInvocation
    /\ UNCHANGED <<settings, fm, inFlight, ops, unloaded, budget>>

MetadataChanged == \E path \in Paths : MetadataChangedOn(path)

\* vault 'create' handler: arms the 200 ms timer, which no table records
VaultCreateOn(path) ==
    /\ ~unloaded
    /\ Stimulus
    /\ settings.enableAutoTemplateOnCreate
    /\ timers' = timers \cup {Timer(FreshId, "create", path, None)}
    /\ NoInvocation
    /\ UNCHANGED <<settings, fm, cache, pendingTimers, inFlight, ops, events, unloaded,
                   calls, lastReason>>

VaultCreate == \E path \in Paths : VaultCreateOn(path)

\* the operations on path whose processFrontMatter has settled and whose
\* continuation, which releases the marker, has not run yet
Settling(path) == {o \in BagToSet(ops) : o.path = path /\ o.phase \in {"resolved", "rejected"}}

\* the callback of debounce timer t
DebounceTimerFiresOn(t) ==
    /\ t \in timers
    /\ t.kind = "normalize"
    /\ timers' = timers \ {t}
    /\ pendingTimers' = Del(pendingTimers, t.path)
    /\ calls' = [calls EXCEPT ![t.path] = 0]
    /\ lastReason' = [lastReason EXCEPT ![t.path] = None]
    /\ hist' = << [op |-> "invoke", path |-> t.path, reason |-> t.reason,
                   calls |-> calls[t.path], last |-> lastReason[t.path],
                   dropped |-> t.path \in inFlight, late |-> Settling(t.path) # {}] >>
    /\ normalizeFileNow(t.path, t.reason)
    /\ UNCHANGED <<settings, fm, cache, events, unloaded, budget>>

DebounceTimerFires == \E t \in timers : DebounceTimerFiresOn(t)

\* the callback of the 200 ms timer t of the 'create' handler
CreateTimerFiresOn(t) ==
    /\ t \in timers
    /\ t.kind = "create"
    /\ timers' = timers \ {t}
    /\ applyTemplateToNewFile(t.path)
    /\ NoInvocation
    /\ UNCHANGED <<settings, fm, cache, pendingTimers, events, unloaded,
                   calls, lastReason, budget>>

CreateTimerFires == \E t \in timers : CreateTimerFiresOn(t)

\* applyTemplateToNewFile resumes after await this.app.vault.read(file);
\* content.startsWith("---"): the document has a frontmatter block
TemplateReadDoneOn(o) ==
    /\ BagIn(o, ops)
    /\ o.kind = "template" /\ o.phase = "read"
    /\ IF fm[o.path] # EmptyFm
       THEN /\ ops' = ops (-) SetToBag({o})
            /\ UNCHANGED inFlight
       ELSE applyTemplateParsed(o.path, ops (-) SetToBag({o}))
    /\ NoInvocation
    /\ UNCHANGED <<settings, fm, cache, pendingTimers, timers, events, unloaded,
                   calls, lastReason, budget>>

TemplateReadDone == \E o \in BagToSet(ops) : TemplateReadDoneOn(o)

\* "Normalize active file" button
CmdNormalizeNowOn(path) ==
    /\ ~unloaded
    /\ Stimulus
    /\ normalizeFileNow(path, "manual")
    /\ NoInvocation
    /\ UNCHANGED <<settings, fm, cache, pendingTimers, timers, events, unloaded,
                   calls, lastReason>>

CmdNormalizeNow == \E path \in ActiveFiles : CmdNormalizeNowOn(path)

\* "Restore (active file)" button
CmdRestoreOn(path) ==
    /\ ~unloaded
    /\ Stimulus
    /\ restoreAliasesForFile(path)
    /\ NoInvocation
    /\ UNCHANGED <<settings, fm, cache, pendingTimers, timers, events, unloaded,
                   calls, lastReason>>

CmdRestore == \E path \in ActiveFiles : CmdRestoreOn(path)

\* "Add managed property" command, after the user picked the i-th managed key
CmdAddManagedOn(path, i) ==
    /\ ~unloaded
    /\ Stimulus
    /\ getNamespaceSlugForFile(path) # None
    /\ addManagedPropertyToFile(path, getManagedAliasKeys[i])
    /\ NoInvocation
    /\ UNCHANGED <<settings, fm, cache, pendingTimers, timers, events, unloaded,
                   calls, lastReason>>

CmdAddManaged ==
    \E path \in ActiveFiles, i \in 1..Len(getManagedAliasKeys) : CmdAddManagedOn(path, i)

\* what the mutator of operation o makes of frontmatter f
mutatorOf(o, f) ==
    LET slug == getNamespaceSlugForFile(o.path)
        managed == getManagedAliasKeys
    IN CASE o.kind = "sync" -> syncMutator(f, slug, managed)
         [] o.kind = "restore" -> restoreMutator(f, slug, managed)
         [] o.kind = "add" -> addManagedMutator(f, o.arg)
         [] o.kind = "template" ->
                templateMutator(f, slug, managed,
                                parseYaml(trim(getRuleForFile(o.path).templateYaml)).entries)

\* processFrontMatter reads the document, runs the mutator and writes the
\* result; vault 'modify' handler
RmwCommitOn(o) ==
    /\ BagIn(o, ops)
    /\ o.phase = "rmw"
    /\ fm' = [fm EXCEPT ![o.path] = mutatorOf(o, @)]
    /\ Written(o.path)
    /\ ops' = (ops (-) SetToBag({o})) (+) SetToBag({[o EXCEPT !.phase = "resolved"]})
    /\ NoInvocation
    /\ UNCHANGED <<settings, cache, inFlight, unloaded, budget>>

RmwCommit == \E o \in BagToSet(ops) : RmwCommitOn(o)

\* processFrontMatter rejects
RmwRejectOn(o) ==
    /\ BagIn(o, ops)
    /\ o.phase = "rmw"
    /\ ops' = (ops (-) SetToBag({o})) (+) SetToBag({[o EXCEPT !.phase = "rejected"]})
    /\ NoInvocation
    /\ UNCHANGED <<settings, fm, cache, pendingTimers, timers, inFlight, events, unloaded,
                   calls, lastReason, budget>>

RmwReject == \E o \in BagToSet(ops) : RmwRejectOn(o)

\* a release that is skipped when processFrontMatter rejected, as without
\* the finally block (not what the code does)
releaseOnSuccess(o) ==
    IF o.phase = "resolved" THEN inFlight \ {o.path} ELSE inFlight

\* finally { this.inFlight.delete(fileKey); }
release(o) == inFlight \ {o.path}

\* how the promise of the operation settles: there is no catch block, so a
\* rejection of processFrontMatter is the rejection of the operation
outcome(o) == IF o.phase = "rejected" THEN "rejected" ELSE "fulfilled"

\* this.app.vault.getMarkdownFiles(): the documents of the vault, in some order
FileOrders ==
    {fs \in [1..Cardinality(Paths) -> Paths] : \A p \in Paths : \E i \in DOMAIN fs : fs[i] = p}

\* restoreAliasesForFile(path) returns before it awaits anything, the marked
\* paths being inF
restoreReturnsAtOnce(path, inF) ==
    \/ getRuleForFile(path) = NoRule
    \/ Len(getManagedAliasKeys) = 0
    \/ path \in inF

\* normalizeFileNow(path, "manual") returns before it awaits anything
normalizeReturnsAtOnce(path, inF) ==
    LET slug == getNamespaceSlugForFile(path)
        managed == getManagedAliasKeys
    IN \/ slug = None
       \/ path \in inF
       \/ Len(managed) = 0
       \/ ~computeNeedsNormalization(cache[path], slug, managed)

\* the loop of restoreAliasesForAllScopedFiles (kind "restore") or of
\* normalizeAllFilesUnderPrefix (kind "sync") run over files until a call
\* awaits processFrontMatter ("await") or the loop ends ("done")
RECURSIVE bulkAdvance(_, _, _, _, _)
bulkAdvance(kind, prefix, files, count, inF) ==
    IF files = <<>> THEN [state |-> "done", path |-> None, rest |-> <<>>, count |-> count]
    ELSE LET f == Head(files)
             skipped == IF kind = "restore" THEN getRuleForFile(f) = NoRule
                        ELSE ~startsWith(replaceBackslashes(f), prefix)
             atOnce == IF kind = "restore" THEN restoreReturnsAtOnce(f, inF)
                       ELSE normalizeReturnsAtOnce(f, inF)
         IN IF skipped THEN bulkAdvance(kind, prefix, Tail(files), count, inF)
            ELSE IF atOnce THEN bulkAdvance(kind, prefix, Tail(files), count + 1, inF)
            ELSE [state |-> "await", path |-> f, rest |-> Tail(files), count |-> count]

\* what a bulk operation reports when its promise settles; left: the
\* documents the loop did not get to
BulkSettled(kind, prefix, result, count, left) ==
    [op |-> "bulk", kind |-> kind, prefix |-> prefix, outcome |-> result,
     count |-> count, left |-> left]

\* a bulk loop runs from files on: it ends, or it suspends with the call it
\* awaits; rest is the bag of the other suspended operations
bulkRun(kind, prefix, files, count, inF, rest) ==
    LET r == bulkAdvance(kind, prefix, files, count, inF)
    IN IF r.state = "done"
       THEN /\ ops' = rest
            /\ inFlight' = inF
            /\ hist' = << BulkSettled(kind, prefix, "fulfilled", r.count, <<>>) >>
       ELSE /\ ops' = rest (+) SetToBag({Op(kind, r.path, "rmw", "bulk")})
                         (+) SetToBag({Op("bulk", r.path, "await",
                                          [kind |-> kind, prefix |-> prefix,
                                           rest |-> r.rest, count |-> r.count])})
            /\ inFlight' = inF \cup {r.path}
            /\ hist' = <<>>

\* the bulk loop that awaits operation o
bulkOf(o) == CHOOSE b \in BagToSet(ops) : b.kind = "bulk" /\ b.path = o.path

\* operation o, called by a bulk loop, resumes after await processFrontMatter
\* and settles; the loop goes on when o was fulfilled and is left by the
\* rejection when o was rejected (there is no try around the await)
BulkChildFinish(o) ==
    LET b == bulkOf(o)
        rest == (ops (-) SetToBag({o})) (-) SetToBag({b})
    IN /\ IF outcome(o) = "rejected"
          THEN /\ ops' = rest
               /\ inFlight' = release(o)
               /\ hist' = << BulkSettled(b.arg.kind, b.arg.prefix, "rejected",
                                          b.arg.count, b.arg.rest) >>
          ELSE bulkRun(b.arg.kind, b.arg.prefix, b.arg.rest, b.arg.count + 1, release(o), rest)
       /\ UNCHANGED <<pendingTimers, timers, calls, lastReason>>

\* operation o resumes after await processFrontMatter: the rest of the try
\* block when the promise resolved, then the finally block
OpFinishOn(o) ==
    /\ BagIn(o, ops)
    /\ o.phase \in {"resolved", "rejected"}
    /\ IF o.arg = "bulk"
       THEN BulkChildFinish(o)
       ELSE /\ ops' = ops (-) SetToBag({o})
            /\ inFlight' = release(o)
            /\ IF o.phase = "resolved" /\ o.kind \in {"template", "add"}
               THEN scheduleNormalize(o.path, "manual")
               ELSE UNCHANGED <<pendingTimers, timers, calls, lastReason>>
            /\ hist' = << [op |-> "settle", kind |-> o.kind, path |-> o.path,
                           rmw |-> o.phase, outcome |-> outcome(o)] >>
    /\ UNCHANGED <<settings, fm, cache, events, unloaded, budget>>

OpFinish == \E o \in BagToSet(ops) : OpFinishOn(o)

\* onunload()
Onunload ==
    /\ ~unloaded
    /\ unloaded' = TRUE
    /\ timers' = {t \in timers : t.id \notin {pendingTimers[p] : p \in DOMAIN pendingTimers}}
    /\ pendingTimers' = [p \in {} |-> 0]
    /\ inFlight' = {}
    /\ calls' = NoPaths
    /\ lastReason' = [p \in Paths |-> None]
    /\ NoInvocation
    /\ UNCHANGED <<settings, fm, cache, ops, events, budget>>

Next ==
    \/ ActiveLeafChange
    \/ UserEdit
    \/ MetadataChanged
    \/ VaultCreate
    \/ DebounceTimerFires
    \/ CreateTimerFires
    \/ TemplateReadDone
    \/ CmdNormalizeNow
    \/ CmdRestore
    \/ CmdAddManaged
    \/ RmwCommit
    \/ RmwReject
    \/ OpFinish
    \/ Onunload

Spec == Init /\ [][Next]_vars

(***************************************************************************)
(* Bulk specification: "Restore (all scoped)" and "Normalize all files     *)
(* under this prefix" over the documents of the vault.                     *)
(***************************************************************************)
BulkFms == {[a |-> "high"], [p__a |-> "low"]}

InitBulk ==
    /\ settings = BaseSettings("a", TRUE, TRUE)
    /\ fm \in [Paths -> BulkFms]
    /\ cache = fm
    /\ IdleScheduling
    /\ hist = <<>>
    /\ budget = MaxBulk

\* "Restore (all scoped)" button: restoreAliasesForAllScopedFiles()
BulkRestoreAll ==
    \E files \in FileOrders :
        /\ ~unloaded
        /\ Stimulus
        /\ bulkRun("restore", "", files, 0, inFlight, ops)
        /\ UNCHANGED <<settings, fm, cache, pendingTimers, timers, events, unloaded,
                       calls, lastReason>>

\* "Normalize all files under this prefix" button of rule i:
\* normalizeAllFilesUnderPrefix(p)
BulkNormalizeUnder ==
    \E i \in 1..Len(settings.folderRules), files \in FileOrders :
        LET p == normalizePrefix(settings.folderRules[i].folderPrefix)
            slug == trim(settings.folderRules[i].namespaceSlug)
        IN /\ ~unloaded
           /\ p # "" /\ slug # ""
           /\ Stimulus
           /\ bulkRun("sync", p, files, 0, inFlight, ops)
           /\ UNCHANGED <<settings, fm, cache, pendingTimers, timers, events, unloaded,
                          calls, lastReason>>

NextBulk ==
    \/ BulkRestoreAll
    \/ BulkNormalizeUnder
    \/ RmwCommit
    \/ RmwReject
    \/ OpFinish
    \/ MetadataChanged
    \/ DebounceTimerFires

SpecBulk == InitBulk /\ [][NextBulk]_vars

\* the document is one the bulk operation recorded in h is to process
Matched(h, path) ==
    IF h.kind = "restore" THEN getRuleForFile(path) # NoRule
    ELSE startsWith(replaceBackslashes(path), h.prefix)

\* the latest step settled a bulk operation
BulkRecorded == hist # <<>> /\ hist[1].op = "bulk"

\* C17: when a bulk restore or bulk normalize settles, it has processed every
\* matched document, whether or not a read-modify-write failed on the way.
C17_BulkIsolation ==
    BulkRecorded =>
        \A i \in 1..Len(hist[1].left) : ~Matched(hist[1], hist[1].left[i])

(***************************************************************************)
(* Properties of the scheduling                                            *)
(***************************************************************************)
\* the debounce timers armed for path
ArmedFor(path) == {t \in timers : t.kind = "normalize" /\ t.path = path}

\* the latest step was a debounce timer invoking the sync operation
Invoked == hist # <<>> /\ hist[1].op = "invoke"

\* C3: at most one metadata read-modify-write is executing for any path.
C3_MutualExclusion == \A path \in Paths : RmwCount(path) <= 1

\* C4: the scheduleNormalize calls of a burst leave exactly one armed timer,
\* which carries the reason of the last call; when it fires, the sync
\* operation is invoked with that reason and no timer of the burst remains.
C4_Coalescing ==
    /\ \A path \in Paths :
          IF calls[path] >= 1
          THEN \E t \in ArmedFor(path) :
                  /\ ArmedFor(path) = {t}
                  /\ t.reason = lastReason[path]
                  /\ pendingTimers[path] = t.id
          ELSE ArmedFor(path) = {}
    /\ Invoked =>
          /\ hist[1].calls >= 1
          /\ hist[1].reason = hist[1].last
          /\ ArmedFor(hist[1].path) = {}

\* witness of C4: two calls with different reasons were coalesced and the
\* one invocation carried the reason of the second
C4_Witness ==
    /\ Invoked
    /\ hist[1].calls >= 2
    /\ hist[1].reason = "metadata-changed"
    /\ hist[1].last = "metadata-changed"

\* the step is a call, for path, of an operation that takes the in-flight marker
CalledFor(path) ==
    \/ CmdNormalizeNowOn(path)
    \/ CmdRestoreOn(path)
    \/ \E i \in 1..Len(getManagedAliasKeys) : CmdAddManagedOn(path, i)
    \/ \E t \in timers : t.path = path /\ (DebounceTimerFiresOn(t) \/ CreateTimerFiresOn(t))
    \/ \E o \in BagToSet(ops) : o.path = path /\ TemplateReadDoneOn(o)

\* the call was dropped: nothing written, the marker left set, no operation
\* started, nothing queued for a retry
Dropped ==
    /\ fm' = fm
    /\ inFlight' = inFlight
    /\ \A q \in Paths : RmwCount(q)' = RmwCount(q)
    /\ timers' \subseteq timers
    /\ events' = events

\* C9: a call for a path marked in-flight is dropped, and while a
\* read-modify-write is executing for a path no second one starts for it.
C9_DropOnConflict ==
    [][\A path \in Paths :
          /\ (path \in inFlight /\ CalledFor(path)) => Dropped
          /\ RmwCount(path) >= 1 => RmwCount(path)' <= RmwCount(path)]_vars

\* the part of C9 that is about calls made while the marker is set
DropWhileMarked ==
    [][\A path \in Paths : (path \in inFlight /\ CalledFor(path)) => Dropped]_vars

\* the latest step settled an operation whose read-modify-write was rejected
SettledRejected == hist # <<>> /\ hist[1].op = "settle" /\ hist[1].rmw = "rejected"

\* C16: when the read-modify-write of a sync, restore, template or
\* add-managed-property operation is rejected, the operation settles as
\* rejected and leaves its path unmarked, so that a trigger for the path
\* passes the in-flight test.
C16_ReleaseOnFailure ==
    SettledRejected =>
        /\ hist[1].outcome = "rejected"
        /\ hist[1].path \notin inFlight

\* witness of C16: the read-modify-write of a template application was
\* rejected, the operation settled and the path is unmarked
C16_Witness ==
    /\ SettledRejected
    /\ hist[1].kind = "template"
    /\ hist[1].path \notin inFlight
    /\ ~unloaded

\* C19: onunload leaves the pending-timer table and the in-flight set empty
\* and no timer armed, so that no timer armed before the shutdown can start a
\* sync or a template application after it.
C19_ShutdownClears ==
    [][Onunload => (/\ DOMAIN pendingTimers' = {}
                    /\ inFlight' = {}
                    /\ timers' = {})]_vars

(***************************************************************************)
(* The running plugin under fair scheduling, on documents that exist: the  *)
(* event loop runs every task it holds, and the plugin is not unloaded.    *)
(***************************************************************************)
InitLive ==
    /\ settings = BaseSettings("a", TRUE, TRUE)
    /\ fm = [p \in Paths |-> IF p = DocPath THEN [a |-> "high"] ELSE EmptyFm]
    /\ cache = fm
    /\ IdleScheduling
    /\ hist = <<>>
    /\ budget = MaxStimuli

NextLive ==
    \/ ActiveLeafChange
    \/ UserEdit
    \/ MetadataChanged
    \/ DebounceTimerFires
    \/ CmdNormalizeNow
    \/ CmdRestore
    \/ CmdAddManaged
    \/ RmwCommit
    \/ RmwReject
    \/ OpFinish

\* the metadata cache delivers the 'changed' event queued for path
Delivers(path) == MetadataChanged /\ <<"changed", path>> \in events \ events'

\* the callback of a timer armed for path runs
TimerRuns(path) == \E t \in timers : t.path = path /\ DebounceTimerFiresOn(t)

\* an awaited promise of an operation on path settles, or its continuation runs
Resumes(path) ==
    /\ RmwCommit \/ RmwReject \/ OpFinish
    /\ \E o \in BagToSet(ops) : o.path = path /\ CopiesIn(o, ops') < CopiesIn(o, ops)

\* the event loop runs every task it holds: each delivered event, each armed
\* timer, each pending promise
Fairness ==
    \A path \in Paths :
        /\ WF_vars(Delivers(path))
        /\ WF_vars(TimerRuns(path))
        /\ WF_vars(Resumes(path))

SpecLive == InitLive /\ [][NextLive]_vars /\ Fairness

\* the pre-check on the frontmatter the document holds
NeedsSync(path) ==
    computeNeedsNormalization(fm[path], getNamespaceSlugForFile(path), getManagedAliasKeys)

\* the latest step was a debounce timer calling the sync operation for path,
\* which dropped the call because the path was marked in flight
DropFor(path) == Invoked /\ hist[1].path = path /\ hist[1].dropped

\* ... while the operation in flight had already settled its read-modify-write
LateDrop == Invoked /\ hist[1].dropped /\ hist[1].late

EmptyManagedRaws == {"", " ", ",", " , ,"}

InitEmpty ==
    /\ settings \in {[BaseSettings(raw, TRUE, TRUE) EXCEPT !.applyTemplateOnlyIfNoFrontmatter = g]
                        : raw \in EmptyManagedRaws, g \in BOOLEAN}
    /\ fm = [p \in Paths |-> IF p = DocPath THEN [a |-> "high", p__b |-> "low"] ELSE EmptyFm]
    /\ cache = fm
    /\ IdleScheduling
    /\ hist = <<>>
    /\ budget = MaxStimuli

\* "Add managed property" has no key to offer and is left out
NextEmpty ==
    \/ ActiveLeafChange
    \/ UserEdit
    \/ MetadataChanged
    \/ VaultCreate
    \/ DebounceTimerFires
    \/ CreateTimerFires
    \/ TemplateReadDone
    \/ CmdNormalizeNow
    \/ CmdRestore
    \/ RmwCommit
    \/ RmwReject
    \/ OpFinish
    \/ Onunload

SpecEmpty == InitEmpty /\ [][NextEmpty]_vars

\* the step is the write of a template application
TemplateWrites ==
    \E o \in BagToSet(ops) :
        /\ o.kind = "template" /\ o.phase = "rmw"
        /\ fm' = [fm EXCEPT ![o.path] = mutatorOf(o, @)]

\* C22 as stated: with an empty managed-key list no sync, restore or template
\* application changes the frontmatter of a document: only the user does.
C22_EmptyListNoOpOriginal ==
    [][fm' # fm => UserEdit]_vars

\* C22 amended: with an empty managed-key list a sync or restore call starts
\* no read-modify-write, takes no marker and fails nothing, so the only
\* operations there are, and the only writes besides the user's, are template
\* applications, which apply every declared key.
C22_EmptyListNoOp ==
    [][/\ fm' # fm => (UserEdit \/ TemplateWrites)
       /\ \A o \in BagToSet(ops') : o.kind = "template"
       /\ \A path \in inFlight' : \E o \in BagToSet(ops') : o.path = path]_vars

\* witness of C22: a debounce timer has invoked the sync operation for a
\* document that holds an alias key and a storage-like key, after a restore
\* command, and nothing was started
C22_Witness ==
    /\ Invoked
    /\ hist[1].path = DocPath
    /\ ~hist[1].dropped
    /\ getManagedAliasKeys = <<>>
    /\ Has(cache[DocPath], "a")
    /\ budget = 0
    /\ ops = EmptyBag
    /\ inFlight = {}

(***************************************************************************)
(* The plugin configured with rule lists that hold incomplete rules and    *)
(* rules that match no document                                            *)
(***************************************************************************)
ScopeRuleLists ==
    { <<>>,
      << Rule("", "p", TRUE, "a: high") >>,
      << Rule("n/", " ", TRUE, "a: high") >>,
      << Rule("m/", "q", TRUE, "a: high") >>,
      << Rule(" ", "q", TRUE, "a: high"), Rule("n", "p", TRUE, "a: high") >>,
      << Rule("n/", "", TRUE, "a: high"), Rule("n\\", "p", TRUE, "a: high") >> }

InitScope ==
    /\ settings \in {[BaseSettings("a", TRUE, TRUE) EXCEPT !.folderRules = rl]
                        : rl \in ScopeRuleLists}
    /\ fm = [p \in Paths |-> IF p = DocPath THEN [a |-> "high"] ELSE [p__a |-> "low"]]
    /\ cache = fm
    /\ IdleScheduling
    /\ hist = <<>>
    /\ budget = MaxStimuli

\* a caller resolves the scope of a document of the vault
ResolveDocument ==
    \E path \in Paths :
        /\ hist' = << [op |-> "resolve", path |-> path,
                       slug |-> getNamespaceSlugForFile(path),
                       rule |-> getRuleForFile(path)] >>
        /\ UNCHANGED <<settings, fm, cache, pendingTimers, timers, inFlight,
                       ops, events, unloaded, calls, lastReason, budget>>

NextScope ==
    \/ ResolveDocument
    \/ ActiveLeafChange
    \/ UserEdit
    \/ MetadataChanged
    \/ VaultCreate
    \/ DebounceTimerFires
    \/ CreateTimerFires
    \/ CmdNormalizeNow
    \/ CmdRestore
    \/ CmdAddManaged
    \/ RmwCommit
    \/ RmwReject
    \/ OpFinish
    \/ Onunload

SpecScope == InitScope /\ [][NextScope]_vars

\* rule i is incomplete: its normalized prefix or its trimmed slug is empty
InertRule(i) ==
    \/ normalizePrefix(settings.folderRules[i].folderPrefix) = ""
    \/ trim(settings.folderRules[i].namespaceSlug) = ""

\* no complete rule matches path
OutOfScope(path) == \A i \in 1..Len(settings.folderRules) : ~CompleteMatches(i, path)

\* C23: an incomplete rule is never the resolution and does not end the scan:
\* a complete rule that matches and has only incomplete rules before it is
\* the resolution; a path that no complete rule matches resolves to none, and
\* no operation starts on it, marks it or changes its frontmatter.
C23_InertRules ==
    /\ [](Resolved =>
            /\ \A i \in 1..Len(settings.folderRules) :
                  /\ InertRule(i) => hist[1].rule # settings.folderRules[i]
                  /\ (CompleteMatches(i, hist[1].path) /\ \A j \in 1..(i - 1) : InertRule(j))
                        => ResolvedTo(i)
            /\ OutOfScope(hist[1].path) => ResolvedToNone)
    /\ [][\A path \in Paths :
            OutOfScope(path) =>
                /\ fm'[path] # fm[path] => UserEdit
                /\ path \notin inFlight'
                /\ \A o \in BagToSet(ops') : o.path # path]_vars

\* witness of C23: the first rule of the list is incomplete, the second one
\* is the resolution of the document, and a sync has worked under it
C23_Witness ==
    /\ Resolved
    /\ Len(settings.folderRules) = 2
    /\ InertRule(1)
    /\ ResolvedTo(2)
    /\ hist[1].path = DocPath
    /\ Has(fm[DocPath], "p__a")

(***************************************************************************)
(* Document creation: the template of the rule, drawn from TemplateTexts,  *)
(* is applied to the documents that are created, which are empty.          *)
(***************************************************************************)
CreateManagedRaws == {"", "a"}

InitCreate ==
    /\ settings \in {[BaseSettings(raw, r, TRUE) EXCEPT
                          !.folderRules = << Rule("n/", "p", TRUE, text) >>,
                          !.applyTemplateOnlyIfNoFrontmatter = g]
                        : raw \in CreateManagedRaws, r \in BOOLEAN,
                          text \in TemplateTexts, g \in BOOLEAN}
    /\ fm = [p \in Paths |-> EmptyFm]
    /\ cache = fm
    /\ IdleScheduling
    /\ hist = <<>>
    /\ budget = MaxStimuli

NextCreate ==
    \/ VaultCreate
    \/ CreateTimerFires
    \/ TemplateReadDone
    \/ RmwCommit
    \/ RmwReject
    \/ OpFinish
    \/ MetadataChanged
    \/ DebounceTimerFires

SpecCreate == InitCreate /\ [][NextCreate]_vars

\* the template body of the rule of path parses to a key-to-value structure
KeyValueTemplate(path) ==
    parseYaml(trim(getRuleForFile(path).templateYaml)).kind = "object"

\* C24: when the template body does not parse, or parses to a scalar, null or
\* a list, the created document keeps its frontmatter, is never marked in
\* flight, has no read-modify-write and gets no sync scheduled.
C24_TemplateFailure ==
    \A path \in Paths :
        ~KeyValueTemplate(path) =>
            /\ fm[path] = EmptyFm
            /\ path \notin inFlight
            /\ \A o \in BagToSet(ops) : o.path = path => o.phase = "read"
            /\ path \notin DOMAIN pendingTimers

(***************************************************************************)
(* The template mutator and the managed-key list (template specification)  *)
(***************************************************************************)
\* C25: with a managed-key list that is not empty, the iteration for a
\* declared key that is not on the list writes nothing; the iteration for a
\* key on the list leaves an alias key that is present as it is, and sets an
\* absent one, to the declared default, exactly when removal is OFF and the
\* storage key was absent too.
C25_TemplateManagedOnly ==
    (TemplateRecorded /\ ManagedSet # {}) =>
        LET entries == parseYaml(hist[1].text).entries
            tr == templateTrace(hist[1].before, TheSlug, getManagedAliasKeys, entries)
        IN /\ tr[Len(tr)] = hist[1].after
           /\ \A j \in 1..Len(entries) :
                 LET ak == trim(entries[j][1])
                     sk == StorageKeyOf(ak)
                     g == tr[j]
                     h == tr[j + 1]
                 IN IF ak \notin ManagedSet
                    THEN h = g
                    ELSE /\ Has(g, ak) => (Has(h, ak) /\ h[ak] = g[ak])
                         /\ ~Has(g, ak) =>
                               IF ~RemovalOn /\ ~Has(g, sk)
                               THEN Has(h, ak) /\ h[ak] = entries[j][2]
                               ELSE ~Has(h, ak)

\* witness of C25: with removal OFF and only a managed, the template
\* {a: low, b: ~} gave an empty document the storage key and the alias key of
\* a and nothing for b
C25_Witness ==
    /\ TemplateRecorded
    /\ hist[1].text = "{a: low, b: ~}"
    /\ ~RemovalOn
    /\ ManagedSet = {"a"}
    /\ hist[1].before = EmptyFm
    /\ hist[1].after = [p__a |-> "low", a |-> "low"]

(***************************************************************************)
(* Restore followed by sync (mutator specification)                        *)
(***************************************************************************)
\* the last two applications were a restore and then a sync
RestoreThenSync ==
    /\ Len(hist) = 2
    /\ hist[1].op = "restore"
    /\ hist[2].op = "sync"

\* f is in synced form: it holds the storage key of some managed alias key
\* and no managed alias key
SyncedForm(f) ==
    /\ \E k \in ManagedSet : Has(f, StorageKeyOf(k))
    /\ \A k \in ManagedSet : ~Has(f, k)

\* C28: with removal ON, a restore of a frontmatter in synced form followed
\* by a sync gives back the frontmatter the restore started from, with
\* delete-storage-keys ON or OFF.
C28_RestoreReverted ==
    (RestoreThenSync /\ RemovalOn /\ SyncedForm(hist[1].before))
        => hist[2].after = hist[1].before

\* the same when no managed alias key is the storage key of another
RestoreRevertedApart ==
    (RestoreThenSync /\ RemovalOn /\ SyncedForm(hist[1].before) /\ ~KeyCollision)
        => hist[2].after = hist[1].before


(***************************************************************************)
(* After the shutdown                                                      *)
(***************************************************************************)
\* the step starts a metadata read-modify-write
StartsRmw == \E path \in Paths : RmwCount(path)' > RmwCount(path)

\* C27: once onunload has run, no step starts a metadata read-modify-write,
\* adds an entry to the pending-timer table or adds a path to the in-flight
\* set.
C27_NothingStartsAfterShutdown ==
    [][unloaded => (/\ ~StartsRmw
                    /\ DOMAIN pendingTimers' \subseteq DOMAIN pendingTimers
                    /\ inFlight' \subseteq inFlight)]_vars

\* the part of C27 that the handlers removed at shutdown account for: after
\* onunload a write of a document, or the 'changed' event that follows it,
\* arms no timer
WritesAfterShutdownArmNothing ==
    [][(unloaded /\ (RmwCommit \/ UserEdit \/ MetadataChanged)) =>
          (timers' = timers /\ pendingTimers' = pendingTimers)]_vars


(***************************************************************************)
(* Independence of the documents                                           *)
(***************************************************************************)
\* the step is a trigger, a timer firing, a call, a settling or a completion
\* for path
StepFor(path) ==
    \/ ActiveLeafChangeOn(path)
    \/ \E v \in EditValues : UserEditOn(path, v)
    \/ MetadataChangedOn(path)
    \/ VaultCreateOn(path)
    \/ CalledFor(path)
    \/ \E o \in BagToSet(ops) :
          o.path = path /\ (RmwCommitOn(o) \/ RmwRejectOn(o) \/ OpFinishOn(o))

\* the timers armed for path, of both kinds
TimersOf(path) == {t \in timers : t.path = path}

\* the step leaves the pending timer and the in-flight marker of path as they were
Untouched(path) ==
    /\ path \in DOMAIN pendingTimers' <=> path \in DOMAIN pendingTimers
    /\ path \in DOMAIN pendingTimers => pendingTimers'[path] = pendingTimers[path]
    /\ TimersOf(path)' = TimersOf(path)
    /\ path \in inFlight' <=> path \in inFlight
    /\ calls'[path] = calls[path]
    /\ lastReason'[path] = lastReason[path]

\* the step starts a read-modify-write for path and marks it in flight
Starts(path) ==
    /\ path \in inFlight'
    /\ RmwCount(path)' = RmwCount(path) + 1

\* C21: a step for a path leaves the pending timer and the in-flight marker
\* of every other path as they were, and a call of an operation for a path
\* starts whenever the path itself is unmarked and the operation has work to
\* do, whatever other paths are marked.
C21_PathIndependence ==
    [][\A path \in Paths :
          /\ StepFor(path) => \A other \in Paths \ {path} : Untouched(other)
          /\ (/\ \/ CmdNormalizeNowOn(path)
                 \/ \E t \in timers : t.path = path /\ DebounceTimerFiresOn(t)
              /\ ~normalizeReturnsAtOnce(path, inFlight \cap {path})) => Starts(path)
          /\ (/\ CmdRestoreOn(path)
              /\ ~restoreReturnsAtOnce(path, inFlight \cap {path})) => Starts(path)
          /\ (/\ \E i \in 1..Len(getManagedAliasKeys) : CmdAddManagedOn(path, i)
              /\ path \notin inFlight) => Starts(path)]_vars

\* witness of C21: a debounce timer has just started a sync of the document
\* while the other document is in flight, has a read-modify-write that has
\* not settled and has a pending timer
C21_Witness ==
    /\ Invoked
    /\ hist[1].path = DocPath
    /\ ~hist[1].dropped
    /\ Executing(DocPath) # {}
    /\ \E other \in Paths \ {DocPath} :
          /\ other \in inFlight
          /\ Executing(other) # {}
          /\ other \in DOMAIN pendingTimers


(***************************************************************************)
(* The chain of syncs a write sets off: one document that has just been    *)
(* written, nothing else happening, the event loop running every task      *)
(***************************************************************************)
ChainRaws == {"a", "a, b", "a, p__a", "p__a, a"}
ChainFms == UNION {[D -> {"high"}] : D \in SUBSET {"a", "b", "p__a"}}

InitChain ==
    /\ settings \in {BaseSettings(raw, r, TRUE) : raw \in ChainRaws, r \in BOOLEAN}
    /\ fm \in {[p \in Paths |-> IF p = DocPath THEN f ELSE EmptyFm] : f \in ChainFms}
    /\ cache = [p \in Paths |-> EmptyFm]
    /\ pendingTimers = [p \in {} |-> 0]
    /\ timers = {}
    /\ inFlight = {}
    /\ ops = EmptyBag
    /\ events = {<<"changed", DocPath>>}
    /\ unloaded = FALSE
    /\ calls = NoPaths
    /\ lastReason = [p \in Paths |-> None]
    /\ hist = <<>>
    /\ budget = 0

NextChain ==
    \/ MetadataChanged
    \/ DebounceTimerFires
    \/ RmwCommit
    \/ RmwReject
    \/ OpFinish

SpecChain == InitChain /\ [][NextChain]_vars /\ Fairness

\* nothing is left to run: no event, no timer, no operation, no marked path
Quiet ==
    /\ events = {}
    /\ timers = {}
    /\ DOMAIN pendingTimers = {}
    /\ ops = EmptyBag
    /\ inFlight = {}

\* the step is a debounce timer calling the sync operation for a document
\* whose cached frontmatter makes the pre-check false
IdleCall ==
    \E t \in timers :
        /\ DebounceTimerFiresOn(t)
        /\ ~computeNeedsNormalization(cache[t.path], getNamespaceSlugForFile(t.path),
                                      getManagedAliasKeys)

====
